---- MODULE Spec2Model ----
(***************************************************************************)
(* Model of the Axie gene utilities of n8n-nodes-ronin                     *)
(* (src/nodes/Ronin/utils/geneUtils.ts with the tables of axieData).       *)
(*                                                                         *)
(* A JavaScript string is a sequence of one-character strings.  A          *)
(* JavaScript number is a record: NaN, or a natural number.                *)
(***************************************************************************)
EXTENDS Integers, Sequences, FiniteSets, TLC

VARIABLES
    geneHex,      \* the gene string handed to the utilities
    pc,           \* how far the caller has got
    valid,        \* result of isValidGene(geneHex)
    decodeResult, \* outcome of decodeGenes(geneHex)
    stats,        \* result of the first calculateStats(decoded)
    stats2,       \* result of a second calculateStats(decoded)
    purity,       \* result of calculatePurity(decoded)
    baseStatsTable,  \* the module-level object BASE_STATS
    partBonusTable,  \* the module-level object PART_STAT_BONUS
    attackerClass,   \* getClassAdvantage: the attacker's class
    defenderClass,   \* getClassAdvantage: the defender's class
    multiplier,         \* getClassAdvantage(attackerClass, defenderClass)
    reverseMultiplier,  \* getClassAdvantage(defenderClass, attackerClass)
    axie1,           \* first Axie of a pairing (the sire of the breeding operations)
    axie2,           \* second Axie of a pairing (the matron)
    breedInfo,       \* canBreed(axie1) and canBreed(axie2)
    pairCost,        \* calculateBreedingCost(axie1, axie2)
    costOp,          \* result of the operation getBreedingCost
    together,        \* canBreedTogether(axie1, axie2)
    eligibility,     \* result of the operation checkEligibility
    togetherSwapped, \* canBreedTogether(axie2, axie1)
    parent1Gene,     \* calculateBreedingProbability: part gene of parent 1
    parent2Gene,     \* calculateBreedingProbability: part gene of parent 2
    probabilities,   \* calculateBreedingProbability(parent1Gene, parent2Gene)
    genePair,        \* the gene strings of two Axies
    decodedPair,     \* decodeGenes of each of them
    derivedPair,     \* calculateStats and calculatePurity of each of them
    address,         \* the address given to roninToHex and hexToRonin
    checksumValid,   \* whether the address carries a valid EIP-55 checksum
    hexResult,       \* roninToHex(address)
    roninResult,     \* hexToRonin(address)
    roundTrip,       \* roninToHex(hexToRonin(address))
    head,            \* RoninTrigger: the block number of the chain's head
    lastBlockNumber, \* RoninTrigger: the polling cursor
    timer,           \* RoninTrigger: the state of the interval timer
    closed,          \* RoninTrigger: closeFunction has completed
    inv,             \* RoninTrigger: the invocations of checkForEvents
    emitted          \* RoninTrigger: the calls of this.emit, in order

geneVars == <<geneHex, valid, decodeResult, stats, stats2, purity,
              baseStatsTable, partBonusTable>>
advVars == <<attackerClass, defenderClass, multiplier, reverseMultiplier>>
breedVars == <<axie1, axie2, breedInfo, pairCost, costOp, together, eligibility,
               togetherSwapped>>
probVars == <<parent1Gene, parent2Gene, probabilities>>
pairVars == <<genePair, decodedPair, derivedPair>>
addrVars == <<address, checksumValid, hexResult, roninResult, roundTrip>>
trigVars == <<head, lastBlockNumber, timer, closed, inv, emitted>>

vars == <<pc, geneVars, advVars, breedVars, probVars, pairVars, addrVars, trigVars>>

----------------------------------------------------------------------------
(* Bounds of the explored inputs and constants of the program.             *)

\* hex characters of a gene: geneUtils.ts line 276
GeneHexLen == 64
\* bits of the binary string: geneUtils.ts line 68
GeneBits == 256
\* lengths GeneHexLen - MaxLenDelta .. GeneHexLen + MaxLenDelta are explored
MaxLenDelta == 1
\* lengths 0 .. MaxShortLen are explored
MaxShortLen == 2

----------------------------------------------------------------------------
(* JavaScript primitives used by the code.                                 *)

LowerDigits == <<"0","1","2","3","4","5","6","7","8","9","a","b","c","d","e","f">>
UpperDigits == <<"0","1","2","3","4","5","6","7","8","9","A","B","C","D","E","F">>

DigitChars == {LowerDigits[i] : i \in 1..16} \cup {UpperDigits[i] : i \in 1..16}

\* value of each digit character (parseInt is case-insensitive)
DigitValues ==
    [ch \in DigitChars |->
        CHOOSE v \in 0..15 : LowerDigits[v + 1] = ch \/ UpperDigits[v + 1] = ch]

DigitValue(ch) == DigitValues[ch]

NaN == [nan |-> TRUE]
Num(n) == [nan |-> FALSE, value |-> n]

IsDigitIn(ch, radix) == ch \in DigitChars /\ DigitValue(ch) < radix

\* number of leading characters of s that are digits in the radix
RECURSIVE DigitPrefixLen(_, _)
DigitPrefixLen(s, radix) ==
    IF s = <<>> \/ ~IsDigitIn(Head(s), radix) THEN 0
    ELSE 1 + DigitPrefixLen(Tail(s), radix)

RECURSIVE DigitsValue(_, _, _)
DigitsValue(s, n, radix) ==
    IF n = 0 THEN 0
    ELSE DigitsValue(s, n - 1, radix) * radix + DigitValue(s[n])

\* parseInt(s, radix) on strings without white space or sign: the value of the
\* longest prefix of digits, NaN when that prefix is empty
parseInt(s, radix) ==
    LET n == DigitPrefixLen(s, radix)
    IN  IF n = 0 THEN NaN ELSE Num(DigitsValue(s, n, radix))

RECURSIVE NatToString(_, _)
NatToString(n, radix) ==
    IF n < radix THEN <<LowerDigits[n + 1]>>
    ELSE NatToString(n \div radix, radix) \o <<LowerDigits[(n % radix) + 1]>>

\* Number.prototype.toString(radix)
toString(x, radix) ==
    IF x.nan THEN <<"N","a","N">> ELSE NatToString(x.value, radix)

\* String.prototype.padStart(targetLength, padChar)
padStart(s, targetLength, padChar) ==
    IF Len(s) >= targetLength THEN s
    ELSE [i \in 1..(targetLength - Len(s)) |-> padChar] \o s

Min(a, b) == IF a < b THEN a ELSE b

\* String.prototype.slice(start, end) for 0 <= start, end
slice(s, start, end) ==
    LET b == Min(start, Len(s))
        e == Min(end, Len(s))
    IN  IF b >= e THEN <<>> ELSE SubSeq(s, b + 1, e)

\* String.prototype.slice(start)
sliceFrom(s, start) == slice(s, start, Len(s))

startsWith(s, prefix) ==
    Len(s) >= Len(prefix) /\ SubSeq(s, 1, Len(prefix)) = prefix

\* obj[key] || default, for an object whose values are all truthy
LookupOr(obj, key, default) == IF key \in DOMAIN obj THEN obj[key] ELSE default

----------------------------------------------------------------------------
(* Tables of constants/axieData.                                           *)

AXIE_CLASSES ==
    <<"beast","bug","bird","plant","aquatic","reptile","mech","dawn","dusk">>

CLASS_HEX ==
    (<<"0","0","0","0">> :> "beast")   @@ (<<"0","0","0","1">> :> "bug")  @@
    (<<"0","0","1","0">> :> "bird")    @@ (<<"0","0","1","1">> :> "plant") @@
    (<<"0","1","0","0">> :> "aquatic") @@ (<<"0","1","0","1">> :> "reptile") @@
    (<<"1","0","0","0">> :> "mech")    @@ (<<"1","0","0","1">> :> "dawn") @@
    (<<"1","0","1","0">> :> "dusk")

StatRec(h, sp, sk, m) == [hp |-> h, speed |-> sp, skill |-> sk, morale |-> m]

BASE_STATS ==
    [beast   |-> StatRec(31, 35, 31, 43), bug     |-> StatRec(35, 31, 35, 39),
     bird    |-> StatRec(27, 43, 35, 35), plant   |-> StatRec(43, 31, 31, 35),
     aquatic |-> StatRec(39, 39, 35, 27), reptile |-> StatRec(39, 35, 31, 35),
     mech    |-> StatRec(31, 39, 43, 27), dawn    |-> StatRec(35, 35, 39, 31),
     dusk    |-> StatRec(43, 27, 35, 35)]

PART_STAT_BONUS ==
    [beast   |-> StatRec(0, 1, 0, 3), bug     |-> StatRec(1, 0, 0, 3),
     bird    |-> StatRec(0, 3, 0, 1), plant   |-> StatRec(3, 0, 0, 1),
     aquatic |-> StatRec(1, 3, 0, 0), reptile |-> StatRec(3, 1, 0, 0),
     mech    |-> StatRec(1, 0, 3, 0), dawn    |-> StatRec(0, 0, 3, 1),
     dusk    |-> StatRec(3, 0, 1, 0)]

----------------------------------------------------------------------------
(* geneUtils.ts                                                            *)

RECURSIVE ExpandChars(_, _)
\* the loop of hexToBinary: binary += parseInt(char, 16).toString(2).padStart(4, '0')
ExpandChars(cleanHex, binary) ==
    IF cleanHex = <<>> THEN binary
    ELSE ExpandChars(Tail(cleanHex),
                     binary \o padStart(toString(parseInt(<<Head(cleanHex)>>, 16), 2), 4, "0"))

stripPrefix(hexGene) ==
    IF startsWith(hexGene, <<"0","x">>) THEN sliceFrom(hexGene, 2) ELSE hexGene

RECURSIVE ExpandCharsUnpadded(_, _)
ExpandCharsUnpadded(cleanHex, binary) ==
    IF cleanHex = <<>> THEN binary
    ELSE ExpandCharsUnpadded(Tail(cleanHex),
                             binary \o toString(parseInt(<<Head(cleanHex)>>, 16), 2))

\* hexToBinary with the per-character padStart(4, '0') forgotten
hexToBinaryUnpadded(hexGene) ==
    padStart(ExpandCharsUnpadded(stripPrefix(hexGene), <<>>), GeneBits, "0")

hexToBinary(hexGene) ==
    padStart(ExpandChars(stripPrefix(hexGene), <<>>), GeneBits, "0")

IndexOf(seq, x) == CHOOSE i \in 1..Len(seq) : seq[i] = x

includes(arr, x) == \E i \in 1..Len(arr) : arr[i] = x

getClassFromGene(binaryGene) ==
    LET classBits == slice(binaryGene, 0, 4)
    IN  IF classBits \notin DOMAIN CLASS_HEX
           \/ ~includes(AXIE_CLASSES, CLASS_HEX[classBits])
        THEN "beast" ELSE CLASS_HEX[classBits]

\* decodePart that reads the part id from all the bits after the class
decodePartWideId(bits) ==
    LET classBits == slice(bits, 0, 4)
        partIdBits == slice(bits, 4, 12)
        partClass == LookupOr(CLASS_HEX, classBits, "unknown")
        partId == toString(parseInt(partIdBits, 2), 10)
    IN  [id |-> partId, name |-> <<"p","a","r","t","-">> \o partId, class |-> partClass]

decodePart(bits) ==
    LET classBits == slice(bits, 0, 4)
        partIdBits == slice(bits, 4, 10)
        partClass == LookupOr(CLASS_HEX, classBits, "unknown")
        partId == toString(parseInt(partIdBits, 2), 10)
    IN  [id |-> partId, name |-> <<"p","a","r","t","-">> \o partId, class |-> partClass]

\* bits per allele (decodePartGene lines 111-113)
alleleSize == 12

\* the alleles in the order of their sub-windows
Alleles == <<"d", "r1", "r2">>

\* the argument decodePartGene hands to decodePart for the j-th allele (from 1)
alleleBinaryOf(partBinary, j) ==
    slice(partBinary, (j - 1) * alleleSize, j * alleleSize)

\* decodePartGene that decodes only the alleles whose window is not empty
decodePartGeneWhileBits(partBinary) ==
    LET present == {j \in 1..3 : alleleBinaryOf(partBinary, j) # <<>>}
    IN  [a \in {Alleles[j] : j \in present} |->
            decodePart(alleleBinaryOf(partBinary, IndexOf(Alleles, a)))]

decodePartGene(partBinary) ==
    [d  |-> decodePart(alleleBinaryOf(partBinary, 1)),
     r1 |-> decodePart(alleleBinaryOf(partBinary, 2)),
     r2 |-> decodePart(alleleBinaryOf(partBinary, 3))]

\* first bit of the body parts and bits per part (decodeGenes lines 152-153)
PartsOffset == 64
partSize == 36

\* the order in which decodeGenes consumes the parts (lines 155-170)
DecodeOrder == <<"eyes", "mouth", "ears", "horn", "back", "tail">>

\* the value of `offset` when the i-th part (from 1) is sliced
offsetOf(i) == PartsOffset + (i - 1) * partSize

\* the argument decodeGenes hands to decodePartGene for the i-th part
partBinaryOf(binary, i) == slice(binary, offsetOf(i), offsetOf(i) + partSize)

field(binary, from, to) == toString(parseInt(slice(binary, from, to), 2), 10)

decodeGenes(hexGene) ==
    LET binary == hexToBinary(hexGene)
        part(name) == decodePartGene(partBinaryOf(binary, IndexOf(DecodeOrder, name)))
    IN  [class    |-> getClassFromGene(binary),
         region   |-> field(binary, 4, 9),
         tag      |-> field(binary, 9, 13),
         bodySkin |-> field(binary, 13, 17),
         pattern  |-> [d  |-> field(binary, 17, 23),
                       r1 |-> field(binary, 23, 29),
                       r2 |-> field(binary, 29, 35)],
         color    |-> [d  |-> field(binary, 35, 41),
                       r1 |-> field(binary, 41, 47),
                       r2 |-> field(binary, 47, 53)],
         eyes     |-> part("eyes"),
         ears     |-> part("ears"),
         mouth    |-> part("mouth"),
         horn     |-> part("horn"),
         back     |-> part("back"),
         tail     |-> part("tail")]

\* /^[0-9a-fA-F]+$/.test(s)
testHexRegex(s) == Len(s) >= 1 /\ \A i \in 1..Len(s) : s[i] \in DigitChars

\* a decodeGenes that validates its input and throws on a malformed one
callDecodeGenesStrict(hexGene) ==
    IF Len(stripPrefix(hexGene)) = GeneHexLen /\ testHexRegex(stripPrefix(hexGene))
    THEN [threw |-> FALSE, value |-> decodeGenes(hexGene)]
    ELSE [threw |-> TRUE, error |-> "InvalidGeneFormat"]

\* a decodeGenes that converts the hex digits with BigInt('0x' + cleanHex), which
\* raises a SyntaxError on a string that is not made of hex digits
callDecodeGenesBigInt(hexGene) ==
    IF testHexRegex(stripPrefix(hexGene))
    THEN [threw |-> FALSE, value |-> decodeGenes(hexGene)]
    ELSE [threw |-> TRUE, error |-> "SyntaxError"]

\* a call of decodeGenes: the code has no throw and every primitive it uses is
\* total on strings, so the call returns
callDecodeGenes(hexGene) == [threw |-> FALSE, value |-> decodeGenes(hexGene)]

\* isValidGene that leaves the character check to decodeGenes
isValidGeneNoRegex(hexGene) ==
    LET cleanHex == stripPrefix(hexGene)
    IN  IF Len(cleanHex) # GeneHexLen THEN FALSE
        ELSE IF callDecodeGenes(hexGene).threw THEN FALSE
        ELSE TRUE

isValidGene(hexGene) ==
    LET cleanHex == stripPrefix(hexGene)
    IN  IF Len(cleanHex) # GeneHexLen THEN FALSE
        ELSE IF ~testHexRegex(cleanHex) THEN FALSE
        ELSE IF callDecodeGenes(hexGene).threw THEN FALSE
        ELSE TRUE

\* the parts in the order of calculateStats and calculatePurity
StatParts == <<"eyes", "ears", "mouth", "horn", "back", "tail">>

ZeroBonus == StatRec(0, 0, 0, 0)

RECURSIVE addBonuses(_, _, _, _)
\* the loop of calculateStats from its i-th part on
addBonuses(genes, acc, i, bonusTable) ==
    IF i > Len(StatParts) THEN acc
    ELSE LET partClass == genes[StatParts[i]].d.class
             bonus == LookupOr(bonusTable, partClass, ZeroBonus)
         IN  addBonuses(genes,
                        StatRec(acc.hp + bonus.hp, acc.speed + bonus.speed,
                                acc.skill + bonus.skill, acc.morale + bonus.morale),
                        i + 1, bonusTable)

\* calculateStats that looks the part bonus up by the Axie's own class
calculateStatsByAxieClass(genes, baseTable, bonusTable) ==
    LET baseStats == LookupOr(baseTable, genes.class, baseTable.beast)
        bonus == LookupOr(bonusTable, genes.class, ZeroBonus)
        n == Len(StatParts)
    IN  StatRec(baseStats.hp + n * bonus.hp, baseStats.speed + n * bonus.speed,
                baseStats.skill + n * bonus.skill, baseStats.morale + n * bonus.morale)

calculateStats(genes, baseTable, bonusTable) ==
    LET baseStats == LookupOr(baseTable, genes.class, baseTable.beast)
    IN  addBonuses(genes,
                   StatRec(baseStats.hp, baseStats.speed, baseStats.skill, baseStats.morale),
                   1, bonusTable)

RECURSIVE countMatching(_, _)
\* the loop of calculatePurity from its i-th part on
countMatching(genes, i) ==
    IF i > Len(StatParts) THEN 0
    ELSE (IF genes[StatParts[i]].d.class = genes.class THEN 1 ELSE 0)
         + countMatching(genes, i + 1)

\* calculatePurity that counts a part when any of its three alleles matches
calculatePurityAnyAllele(genes) ==
    LET matching == {i \in 1..Len(StatParts) :
                        \E j \in 1..3 : genes[StatParts[i]][Alleles[j]].class = genes.class}
    IN  [num |-> Cardinality(matching) * 100, den |-> 6]

\* (matchingParts / totalParts) * 100 as an exact fraction num / den
calculatePurity(genes) ==
    LET matchingParts == countMatching(genes, 1)
        totalParts == 6
    IN  [num |-> matchingParts * 100, den |-> totalParts]

----------------------------------------------------------------------------
(* The gene strings explored.                                              *)

Repeat(ch, n) == [i \in 1..n |-> ch]

\* n characters, all `base` except `edit` at the 0-based positions in P
Body(n, base, P, edit) == [i \in 1..n |-> IF (i - 1) \in P THEN edit ELSE base]

BaseChars == {"0", "1"}
NonHexChars == {"g", "x"}
EditChars == {LowerDigits[i] : i \in 1..16} \cup {"A", "F"} \cup NonHexChars

\* 0-based hex position of the class nibble of the dominant allele of part i
DominantNibble(i) == (PartsOffset \div 4) + (i - 1) * (partSize \div 4)

SingleEdits ==
    {Body(GeneHexLen, b, {p}, c) :
        b \in BaseChars, p \in 0..(GeneHexLen - 1), c \in EditChars}

DominantEdits ==
    {Body(GeneHexLen, b, {DominantNibble(i) : i \in M} \cup H, c) :
        b \in {"0", "1"}, M \in SUBSET (1..6), H \in {{}, {0}}, c \in {"0", "3", "f"}}

OtherLengths ==
    (0..MaxShortLen)
    \cup ((GeneHexLen - MaxLenDelta)..(GeneHexLen + MaxLenDelta))
    \cup {2 * GeneHexLen}

Uniform ==
    {Repeat(b, n) : b \in BaseChars \cup {"f", "F"} \cup NonHexChars, n \in OtherLengths}

Bodies == SingleEdits \cup DominantEdits \cup Uniform

\* the malformed gene of the unit tests
InvalidWord == <<"i","n","v","a","l","i","d">>

GeneInputs ==
    Bodies \cup {<<"0","x">> \o b : b \in Bodies}
           \cup {<<"0","X">> \o b : b \in Uniform}
           \cup {InvalidWord}

----------------------------------------------------------------------------
(* The caller: validate, decode, derive.                                   *)

NoValue == [none |-> TRUE]

\* the variables of the other utilities, not in use
IdleAdvantage ==
    /\ attackerClass = NoValue /\ defenderClass = NoValue
    /\ multiplier = NoValue /\ reverseMultiplier = NoValue
IdleBreeding ==
    /\ axie1 = NoValue /\ axie2 = NoValue /\ breedInfo = NoValue /\ pairCost = NoValue
    /\ costOp = NoValue /\ together = NoValue /\ eligibility = NoValue
    /\ togetherSwapped = NoValue
IdleProbability ==
    /\ parent1Gene = NoValue /\ parent2Gene = NoValue /\ probabilities = NoValue
IdlePair ==
    genePair = NoValue /\ decodedPair = NoValue /\ derivedPair = NoValue
IdleAddress ==
    address = NoValue /\ checksumValid = NoValue /\ hexResult = NoValue /\ roninResult = NoValue /\ roundTrip = NoValue
IdleTrigger ==
    head = NoValue /\ lastBlockNumber = NoValue /\ timer = NoValue /\ closed = NoValue /\ inv = NoValue /\ emitted = NoValue
IdleGenes ==
    /\ geneHex = NoValue /\ valid = FALSE /\ decodeResult = NoValue /\ stats = NoValue
    /\ stats2 = NoValue /\ purity = NoValue
    /\ baseStatsTable = NoValue /\ partBonusTable = NoValue

GeneInit ==
    /\ geneHex \in GeneInputs
    /\ pc = "start"
    /\ valid = FALSE
    /\ decodeResult = NoValue
    /\ stats = NoValue
    /\ stats2 = NoValue
    /\ purity = NoValue
    /\ baseStatsTable = BASE_STATS
    /\ partBonusTable = PART_STAT_BONUS
    /\ IdleAdvantage /\ IdleBreeding /\ IdleProbability /\ IdlePair /\ IdleAddress /\ IdleTrigger

IsValidGeneCall ==
    /\ pc = "start"
    /\ valid' = isValidGene(geneHex)
    /\ pc' = "validated"
    /\ UNCHANGED <<geneHex, decodeResult, stats, stats2, purity,
                   baseStatsTable, partBonusTable>>
    /\ UNCHANGED <<advVars, breedVars, probVars, pairVars, addrVars, trigVars>>

DecodeGenesCall ==
    /\ pc = "validated"
    /\ decodeResult' = callDecodeGenes(geneHex)
    /\ pc' = "decoded"
    /\ UNCHANGED <<geneHex, valid, stats, stats2, purity,
                   baseStatsTable, partBonusTable>>
    /\ UNCHANGED <<advVars, breedVars, probVars, pairVars, addrVars, trigVars>>

CalculateStatsCall ==
    /\ pc = "decoded"
    /\ ~decodeResult.threw
    /\ stats' = calculateStats(decodeResult.value, baseStatsTable, partBonusTable)
    /\ pc' = "stats"
    /\ UNCHANGED <<geneHex, valid, decodeResult, stats2, purity,
                   baseStatsTable, partBonusTable>>
    /\ UNCHANGED <<advVars, breedVars, probVars, pairVars, addrVars, trigVars>>

CalculatePurityCall ==
    /\ pc = "stats"
    /\ purity' = calculatePurity(decodeResult.value)
    /\ pc' = "purity"
    /\ UNCHANGED <<geneHex, valid, decodeResult, stats, stats2,
                   baseStatsTable, partBonusTable>>
    /\ UNCHANGED <<advVars, breedVars, probVars, pairVars, addrVars, trigVars>>

CalculateStatsAgain ==
    /\ pc = "purity"
    /\ stats2' = calculateStats(decodeResult.value, baseStatsTable, partBonusTable)
    /\ pc' = "done"
    /\ UNCHANGED <<geneHex, valid, decodeResult, stats, purity,
                   baseStatsTable, partBonusTable>>
    /\ UNCHANGED <<advVars, breedVars, probVars, pairVars, addrVars, trigVars>>

GeneNext ==
    \/ IsValidGeneCall
    \/ DecodeGenesCall
    \/ CalculateStatsCall
    \/ CalculatePurityCall
    \/ CalculateStatsAgain

GeneSpec == GeneInit /\ [][GeneNext]_vars

----------------------------------------------------------------------------
(* What the claims are stated against: the gene format read directly off   *)
(* the characters of the input, without the binary string.                 *)

HexCharClass ==
    {"0","1","2","3","4","5","6","7","8","9",
     "a","b","c","d","e","f","A","B","C","D","E","F"}

\* s matches ^(0x)?[0-9a-fA-F]{64}$
MatchesGenePattern(s) ==
    \/ Len(s) = 64 /\ \A i \in 1..64 : s[i] \in HexCharClass
    \/ Len(s) = 66 /\ s[1] = "0" /\ s[2] = "x" /\ \A i \in 3..66 : s[i] \in HexCharClass

\* the 64 hex characters of a string that matches the pattern
HexBody(s) == IF Len(s) = 66 THEN SubSeq(s, 3, 66) ELSE s

RefNibble ==
    ("0" :> 0) @@ ("1" :> 1) @@ ("2" :> 2) @@ ("3" :> 3) @@ ("4" :> 4) @@
    ("5" :> 5) @@ ("6" :> 6) @@ ("7" :> 7) @@ ("8" :> 8) @@ ("9" :> 9) @@
    ("a" :> 10) @@ ("b" :> 11) @@ ("c" :> 12) @@ ("d" :> 13) @@ ("e" :> 14) @@
    ("f" :> 15) @@ ("A" :> 10) @@ ("B" :> 11) @@ ("C" :> 12) @@ ("D" :> 13) @@
    ("E" :> 14) @@ ("F" :> 15)

\* bit k (0 = most significant) of the 256-bit number written by s
RefBit(s, k) == (RefNibble[HexBody(s)[(k \div 4) + 1]] \div (2 ^ (3 - (k % 4)))) % 2

\* unsigned value of bits [from, to)
RECURSIVE RefValue(_, _, _)
RefValue(s, from, to) ==
    IF from >= to THEN 0 ELSE 2 * RefValue(s, from, to - 1) + RefBit(s, to - 1)

\* bits [from, to) as characters
RefBits(s, from, to) ==
    [i \in 1..(to - from) |-> IF RefBit(s, from + i - 1) = 1 THEN "1" ELSE "0"]

DecimalDigits == <<"0","1","2","3","4","5","6","7","8","9">>

\* decimal string of n < 100
Decimal(n) ==
    IF n < 10 THEN <<DecimalDigits[n + 1]>>
    ELSE <<DecimalDigits[(n \div 10) + 1], DecimalDigits[(n % 10) + 1]>>

NaNString == <<"N","a","N">>

\* the 9-entry class code table, by code value
RefClassOfCode(code, default) ==
    CASE code = 0 -> "beast"   [] code = 1 -> "bug"     [] code = 2 -> "bird"
      [] code = 3 -> "plant"   [] code = 4 -> "aquatic" [] code = 5 -> "reptile"
      [] code = 8 -> "mech"    [] code = 9 -> "dawn"    [] code = 10 -> "dusk"
      [] OTHER -> default

ClassNames ==
    {"beast","bug","bird","plant","aquatic","reptile","mech","dawn","dusk"}

SixParts == {"eyes", "ears", "mouth", "horn", "back", "tail"}
ThreeAlleles == {"d", "r1", "r2"}
HeaderFields == {"class", "region", "tag", "bodySkin", "pattern", "color"}

Validated == pc # "start"
Decoded == pc \in {"decoded", "stats", "purity", "done"}
ValidInput == MatchesGenePattern(geneHex)

ZeroGene == [i \in 1..64 |-> "0"]
OnesGene == [i \in 1..64 |-> "1"]

\* a decimal string of a value below 64, or "NaN"
IsFieldString(x) == x = NaNString \/ \E n \in 0..63 : x = Decimal(n)

\* a record with all twelve fields of DecodedGenes
IsCompleteRecord(g) ==
    /\ DOMAIN g = HeaderFields \cup SixParts
    /\ g.class \in ClassNames
    /\ IsFieldString(g.region) /\ IsFieldString(g.tag) /\ IsFieldString(g.bodySkin)
    /\ \A a \in ThreeAlleles : IsFieldString(g.pattern[a]) /\ IsFieldString(g.color[a])
    /\ \A p \in SixParts : DOMAIN g[p] = ThreeAlleles
    /\ \A p \in SixParts : \A a \in ThreeAlleles :
          /\ IsFieldString(g[p][a].id)
          /\ g[p][a].class \in ClassNames \cup {"unknown"}

----------------------------------------------------------------------------
(* C1 *)

----------------------------------------------------------------------------
(* C2 *)

----------------------------------------------------------------------------
(* C3 *)

----------------------------------------------------------------------------
(* C4 *)

\* C4 (as claimed): part i (eyes, mouth, ears, horn, back, tail) is read from bits
\* [64+36i, 64+36(i+1)), its three alleles from three full 12-bit windows, and
\* every allele window lies inside the 256 bits.
C4_FixedFullWindows ==
    (Decoded /\ ValidInput) =>
        \A i \in 1..6 : \A j \in 1..3 :
            LET from == 64 + 36 * (i - 1) + 12 * (j - 1)
                window == alleleBinaryOf(partBinaryOf(hexToBinary(geneHex), i), j)
            IN  /\ from + 12 <= 256
                /\ window = RefBits(geneHex, from, from + 12)
                /\ decodeResult.value[DecodeOrder[i]][Alleles[j]] = decodePart(window)

----------------------------------------------------------------------------
(* C5 *)

----------------------------------------------------------------------------
(* C6 *)

\* first bit of the window of allele j (from 1) of the i-th part consumed (from 1)
RefAlleleStart(i, j) == 64 + 36 * (i - 1) + 12 * (j - 1)

\* C6 (as claimed): the class is the table entry of bits [0,4), beast for the
\* unmapped codes; every allele's class is the table entry of the first 4 bits of
\* its 12-bit window, unknown for the unmapped codes, and its part id is the
\* decimal value (0..63) of the next 6 bits.
C6_ClassCodeTable ==
    (Decoded /\ ValidInput) =>
        /\ ~decodeResult.threw
        /\ decodeResult.value.class = RefClassOfCode(RefValue(geneHex, 0, 4), "beast")
        /\ \A i \in 1..6 : \A j \in 1..3 :
              LET a == decodeResult.value[DecodeOrder[i]][Alleles[j]]
                  from == RefAlleleStart(i, j)
              IN  /\ \E n \in 0..63 : a.id = Decimal(n)
                  /\ a.class = RefClassOfCode(RefValue(geneHex, from, from + 4), "unknown")
                  /\ a.id = Decimal(RefValue(geneHex, from + 4, from + 10))

----------------------------------------------------------------------------
(* C7 *)

\* C7 (as claimed): the all-zero gene, with or without 0x, decodes without error
\* to class beast with part id "0" in each of the 18 alleles.
C7_AllZeroGene ==
    (Decoded /\ geneHex \in {ZeroGene, <<"0","x">> \o ZeroGene}) =>
        /\ ~decodeResult.threw
        /\ decodeResult.value.class = "beast"
        /\ \A p \in SixParts : \A a \in ThreeAlleles :
              decodeResult.value[p][a].id = <<"0">>

----------------------------------------------------------------------------
(* C8 *)

IsDecimalString(x) == \E n \in 0..63 : x = Decimal(n)

\* every header field and every allele holds a decoded value
FullyPopulated(g) ==
    /\ g.class \in ClassNames
    /\ IsDecimalString(g.region) /\ IsDecimalString(g.tag) /\ IsDecimalString(g.bodySkin)
    /\ \A a \in ThreeAlleles : IsDecimalString(g.pattern[a]) /\ IsDecimalString(g.color[a])
    /\ \A p \in SixParts : \A a \in ThreeAlleles :
          /\ g[p][a].class \in ClassNames \cup {"unknown"}
          /\ IsDecimalString(g[p][a].id)

IsStatRecord(x) ==
    /\ DOMAIN x = {"hp", "speed", "skill", "morale"}
    /\ \A k \in DOMAIN x : x[k] \in Nat

\* C8 (as claimed): the genes of 64 '1' and of 64 '0' both decode, to different
\* structures with every field populated and no NaN; the '1' gene has class bug;
\* purity and stats of it are numbers.
C8_BoundaryGenes ==
    (pc = "done" /\ HexBody(geneHex) \in {ZeroGene, OnesGene} /\ ValidInput) =>
        /\ ~decodeResult.threw
        /\ FullyPopulated(decodeResult.value)
        /\ decodeGenes(ZeroGene) # decodeGenes(OnesGene)
        /\ (HexBody(geneHex) = OnesGene =>
              /\ decodeResult.value.class = "bug"
              /\ IsStatRecord(stats)
              /\ purity.num \in Nat /\ purity.den \in Nat \ {0})

----------------------------------------------------------------------------
(* C9 *)

RefBase(g) == IF g.class \in DOMAIN BASE_STATS THEN BASE_STATS[g.class] ELSE BASE_STATS.beast

RefBonus(class, k) ==
    IF class \in DOMAIN PART_STAT_BONUS THEN PART_STAT_BONUS[class][k] ELSE 0

RefStat(g, k) ==
    RefBase(g)[k]
    + RefBonus(g.eyes.d.class, k) + RefBonus(g.ears.d.class, k)
    + RefBonus(g.mouth.d.class, k) + RefBonus(g.horn.d.class, k)
    + RefBonus(g.back.d.class, k) + RefBonus(g.tail.d.class, k)

\* C9: calculateStats(g) is, per stat, the base stat of g.class plus the bonuses of
\* the six dominant allele classes (zero for a class without bonus entry); the
\* result holds non-negative integers, a second call returns the same, and the
\* decoded structure and the two tables are as before the calls.
C9_StatsFormula ==
    /\ pc \in {"stats", "purity", "done"} =>
          /\ DOMAIN stats = {"hp", "speed", "skill", "morale"}
          /\ \A k \in DOMAIN stats :
                stats[k] = RefStat(decodeResult.value, k) /\ stats[k] \in Nat
    /\ pc = "done" => stats2 = stats
    /\ baseStatsTable = BASE_STATS
    /\ partBonusTable = PART_STAT_BONUS

\* stats were computed twice for a structure with a dominant allele of unknown
\* class and one of a class other than the Axie's
C9_Witness ==
    /\ pc = "done"
    /\ \E p \in SixParts : decodeResult.value[p].d.class = "unknown"
    /\ \E p \in SixParts :
          decodeResult.value[p].d.class \notin {"unknown", decodeResult.value.class}

----------------------------------------------------------------------------
(* C10 *)

\* the parts whose dominant allele has the Axie's class
RefMatching(g) == {p \in SixParts : g[p].d.class = g.class}

\* C10: calculatePurity(g) = (k/6)*100 with k the number of parts whose dominant
\* allele class is g.class, so it lies in [0,100]; recessive alleles play no part.
C10_PurityFormula ==
    pc \in {"purity", "done"} =>
        /\ purity.den > 0
        /\ purity.num * 6 = Cardinality(RefMatching(decodeResult.value)) * 100 * purity.den
        /\ 0 <= purity.num /\ purity.num <= 100 * purity.den

\* purity was computed for a structure where some but not all dominant alleles
\* match and a part with a foreign dominant has a matching recessive
C10_Witness ==
    /\ pc = "purity"
    /\ Cardinality(RefMatching(decodeResult.value)) = 2
    /\ \E p \in SixParts :
          /\ decodeResult.value[p].d.class # decodeResult.value.class
          /\ decodeResult.value[p].r1.class = decodeResult.value.class

\* ---------------------------------------------------------------------------
\* Class advantage (constants/axieData.ts CLASS_ADVANTAGES, axieUtils.ts
\* getClassAdvantage).  The multipliers 1.15, 0.85 and 1.0 are kept as
\* hundredths: 115, 85, 100.
\* ---------------------------------------------------------------------------

CLASS_ADVANTAGES ==
    [beast   |-> <<"plant", "reptile", "dusk">>,
     bug     |-> <<"beast", "mech", "dawn">>,
     bird    |-> <<"bug", "aquatic", "dawn">>,
     plant   |-> <<"bird", "aquatic", "dawn">>,
     aquatic |-> <<"beast", "bug", "mech">>,
     reptile |-> <<"bird", "plant", "aquatic">>,
     mech    |-> <<"beast", "bug", "bird">>,
     dawn    |-> <<"plant", "reptile", "aquatic">>,
     dusk    |-> <<"bug", "bird", "beast">>]

StrongMultiplier == 115
WeakMultiplier == 85
NeutralMultiplier == 100

\* getClassAdvantage without the look at the defender's list
getClassAdvantageAttackerOnly(attacker, defender) ==
    LET advantages == LookupOr(CLASS_ADVANTAGES, attacker, <<>>)
    IN  IF includes(advantages, defender) THEN StrongMultiplier ELSE NeutralMultiplier

getClassAdvantage(attacker, defender) ==
    LET advantages == LookupOr(CLASS_ADVANTAGES, attacker, <<>>)
        defenderAdvantages == LookupOr(CLASS_ADVANTAGES, defender, <<>>)
    IN  IF includes(advantages, defender) THEN StrongMultiplier
        ELSE IF includes(defenderAdvantages, attacker) THEN WeakMultiplier
        ELSE NeutralMultiplier

\* the options of the parameters attackerClass and defenderClass
ClassOptions == {AXIE_CLASSES[i] : i \in 1..Len(AXIE_CLASSES)}

AdvantageInit ==
    /\ pc = "start"
    /\ attackerClass \in ClassOptions
    /\ defenderClass \in ClassOptions
    /\ multiplier = NoValue
    /\ reverseMultiplier = NoValue
    /\ IdleGenes /\ IdleBreeding /\ IdleProbability /\ IdlePair /\ IdleAddress /\ IdleTrigger

\* the operation getClassAdvantage on an item (attackerClass, defenderClass)
GetClassAdvantageCall ==
    /\ pc = "start"
    /\ multiplier' = getClassAdvantage(attackerClass, defenderClass)
    /\ pc' = "forward"
    /\ UNCHANGED <<attackerClass, defenderClass, reverseMultiplier>>
    /\ UNCHANGED <<geneVars, breedVars, probVars, pairVars, addrVars, trigVars>>

\* the operation on the next item, which has the two classes exchanged
GetClassAdvantageSwapped ==
    /\ pc = "forward"
    /\ reverseMultiplier' = getClassAdvantage(defenderClass, attackerClass)
    /\ pc' = "both"
    /\ UNCHANGED <<attackerClass, defenderClass, multiplier>>
    /\ UNCHANGED <<geneVars, breedVars, probVars, pairVars, addrVars, trigVars>>

AdvantageNext == GetClassAdvantageCall \/ GetClassAdvantageSwapped

AdvantageSpec == AdvantageInit /\ [][AdvantageNext]_vars

\* whether the table lists y among the classes that x beats
Beats(x, y) == \E i \in 1..Len(CLASS_ADVANTAGES[x]) : CLASS_ADVANTAGES[x][i] = y

\* C11: the advantage of X over Y is 1.15 exactly when that of Y over X is
\* 0.85, and no class both lists a class and is listed by it.
C11_AdvantageAntisymmetric ==
    pc = "both" =>
        /\ (multiplier = StrongMultiplier) <=> (reverseMultiplier = WeakMultiplier)
        /\ ~(Beats(attackerClass, defenderClass) /\ Beats(defenderClass, attackerClass))

\* C12: for every pair the multiplier is 1.15 if the attacker's list has the
\* defender, else 0.85 if the defender's list has the attacker, else 1.0; every
\* class lists exactly three classes, never itself, so a class against itself
\* gives 1.0.
C12_MultiplierByTable ==
    /\ pc \in {"forward", "both"} =>
        /\ multiplier \in {WeakMultiplier, NeutralMultiplier, StrongMultiplier}
        /\ Beats(attackerClass, defenderClass) => multiplier = StrongMultiplier
        /\ ~Beats(attackerClass, defenderClass) /\ Beats(defenderClass, attackerClass)
              => multiplier = WeakMultiplier
        /\ ~Beats(attackerClass, defenderClass) /\ ~Beats(defenderClass, attackerClass)
              => multiplier = NeutralMultiplier
        /\ attackerClass = defenderClass => multiplier = NeutralMultiplier
    /\ attackerClass \in ClassOptions =>
        /\ Cardinality({y \in ClassOptions : Beats(attackerClass, y)}) = 3
        /\ Len(CLASS_ADVANTAGES[attackerClass]) = 3
        /\ ~Beats(attackerClass, attackerClass)

C12_Witness ==
    /\ pc = "both"
    /\ attackerClass = "reptile" /\ defenderClass = "bird"
    /\ multiplier = StrongMultiplier /\ reverseMultiplier = WeakMultiplier

\* ---------------------------------------------------------------------------
\* Breeding costs and eligibility (constants/axieData.ts BREEDING_COSTS,
\* axieUtils.ts canBreed, calculateBreedingCost, canBreedTogether, and the
\* breeding operations getBreedingCost and checkEligibility).
\* AXS amounts are kept in tenths: 0.5 AXS is 5.  A reason is the sequence of
\* the pieces of its template literal.
\* ---------------------------------------------------------------------------

AXS_PER_BREED == 5
SLP_BY_BREED_COUNT == <<900, 1350, 2250, 3600, 5850, 9450, 15300>>
MAX_BREED_COUNT == 7
AdultStage == 4

\* array[index] || default, for an array of numbers indexed from 0
IndexOr(array, index, default) ==
    IF index \in 0..(Len(array) - 1) /\ array[index + 1] # 0
    THEN array[index + 1] ELSE default

\* value || default, for a number
NumberOr(value, default) == IF value = 0 THEN default ELSE value

MaxBreedReason == <<"Maximum breed count reached (7)">>
NotAdultReason == <<"Axie must be an adult to breed">>

\* canBreed with the table read one entry too far
canBreedNextEntry(axie) ==
    IF axie.breedCount >= MAX_BREED_COUNT
    THEN [canBreed |-> FALSE, axsCost |-> 0, slpCost |-> 0, reason |-> MaxBreedReason]
    ELSE IF axie.stage < AdultStage
    THEN [canBreed |-> FALSE, axsCost |-> 0, slpCost |-> 0, reason |-> NotAdultReason]
    ELSE [canBreed |-> TRUE, axsCost |-> AXS_PER_BREED,
          slpCost |-> IndexOr(SLP_BY_BREED_COUNT, axie.breedCount + 1, 0)]

canBreed(axie) ==
    IF axie.breedCount >= MAX_BREED_COUNT
    THEN [canBreed |-> FALSE, axsCost |-> 0, slpCost |-> 0, reason |-> MaxBreedReason]
    ELSE IF axie.stage < AdultStage
    THEN [canBreed |-> FALSE, axsCost |-> 0, slpCost |-> 0, reason |-> NotAdultReason]
    ELSE [canBreed |-> TRUE, axsCost |-> AXS_PER_BREED,
          slpCost |-> IndexOr(SLP_BY_BREED_COUNT, axie.breedCount, 0)]

\* calculateBreedingCost with the AXS fee taken for each parent
calculateBreedingCostPerParent(a1, a2) ==
    LET slp1 == IndexOr(SLP_BY_BREED_COUNT, a1.breedCount, 0)
        slp2 == IndexOr(SLP_BY_BREED_COUNT, a2.breedCount, 0)
    IN  [axsCost |-> AXS_PER_BREED + AXS_PER_BREED, slpCost |-> slp1 + slp2]

calculateBreedingCost(a1, a2) ==
    LET slp1 == IndexOr(SLP_BY_BREED_COUNT, a1.breedCount, 0)
        slp2 == IndexOr(SLP_BY_BREED_COUNT, a2.breedCount, 0)
    IN  [axsCost |-> AXS_PER_BREED, slpCost |-> slp1 + slp2]

\* the operation getBreedingCost, for the fetched sire and matron
getBreedingCost(sire, matron) ==
    LET sireBreedCount == NumberOr(sire.breedCount, 0)
        matronBreedCount == NumberOr(matron.breedCount, 0)
        sireSlpCost == IndexOr(SLP_BY_BREED_COUNT, sireBreedCount, 0)
        matronSlpCost == IndexOr(SLP_BY_BREED_COUNT, matronBreedCount, 0)
    IN  [sire |-> [id |-> sire.id, breedCount |-> sireBreedCount, slpCost |-> sireSlpCost],
         matron |-> [id |-> matron.id, breedCount |-> matronBreedCount,
                     slpCost |-> matronSlpCost],
         totalCost |-> [slp |-> sireSlpCost + matronSlpCost, axs |-> AXS_PER_BREED]]

\* ---- inputs of the cost functions ----------------------------------------

MaxBreedCount == 8
NoParent == "0"

CostAxies(id) ==
    [id : {id}, breedCount : 0..MaxBreedCount, stage : {AdultStage - 1, AdultStage},
     matronId : {NoParent}, sireId : {NoParent}]

BreedCostInit ==
    /\ pc = "start"
    /\ axie1 \in CostAxies("1")
    /\ axie2 \in CostAxies("2")
    /\ breedInfo = NoValue /\ pairCost = NoValue /\ costOp = NoValue
    /\ together = NoValue /\ eligibility = NoValue /\ togetherSwapped = NoValue
    /\ IdleGenes /\ IdleAdvantage /\ IdleProbability /\ IdlePair /\ IdleAddress /\ IdleTrigger

CanBreedCall ==
    /\ pc = "start"
    /\ breedInfo' = <<canBreed(axie1), canBreed(axie2)>>
    /\ pc' = "info"
    /\ UNCHANGED <<axie1, axie2, pairCost, costOp, together, eligibility, togetherSwapped>>
    /\ UNCHANGED <<geneVars, advVars, probVars, pairVars, addrVars, trigVars>>

CalculateBreedingCostCall ==
    /\ pc = "info"
    /\ pairCost' = calculateBreedingCost(axie1, axie2)
    /\ pc' = "cost"
    /\ UNCHANGED <<axie1, axie2, breedInfo, costOp, together, eligibility, togetherSwapped>>
    /\ UNCHANGED <<geneVars, advVars, probVars, pairVars, addrVars, trigVars>>

GetBreedingCostOp ==
    /\ pc = "cost"
    /\ costOp' = getBreedingCost(axie1, axie2)
    /\ pc' = "costOp"
    /\ UNCHANGED <<axie1, axie2, breedInfo, pairCost, together, eligibility, togetherSwapped>>
    /\ UNCHANGED <<geneVars, advVars, probVars, pairVars, addrVars, trigVars>>

BreedCostNext == CanBreedCall \/ CalculateBreedingCostCall \/ GetBreedingCostOp

BreedCostSpec == BreedCostInit /\ [][BreedCostNext]_vars

\* the SLP cost the table gives for a breed count within it
TableCost(c) == SLP_BY_BREED_COUNT[c + 1]
TableCounts == 0..(MAX_BREED_COUNT - 1)

\* C13: the per-Axie SLP cost is the entry of a 7-element table indexed by
\* breedCount 0..6 (900, 1350, 2250, 3600, 5850, 9450, 15300, strictly
\* increasing); breedCount 7 has no entry; no lookup for 0..6 leaves the table.
C13_SlpCostTable ==
    /\ Len(SLP_BY_BREED_COUNT) = 7
    /\ SLP_BY_BREED_COUNT = <<900, 1350, 2250, 3600, 5850, 9450, 15300>>
    /\ \A c \in 0..5 : TableCost(c) < TableCost(c + 1)
    /\ MAX_BREED_COUNT = 7 /\ MAX_BREED_COUNT + 1 \notin DOMAIN SLP_BY_BREED_COUNT
    /\ pc \in {"info", "cost", "costOp"} =>
         \A k \in 1..2 :
            LET axie == IF k = 1 THEN axie1 ELSE axie2 IN
            /\ axie.breedCount \in TableCounts =>
                 /\ axie.breedCount + 1 \in DOMAIN SLP_BY_BREED_COUNT
                 /\ axie.stage >= AdultStage =>
                      /\ breedInfo[k].canBreed
                      /\ breedInfo[k].slpCost = TableCost(axie.breedCount)
            /\ axie.breedCount = 0 /\ axie.stage >= AdultStage => breedInfo[k].slpCost = 900
            /\ axie.breedCount = 6 /\ axie.stage >= AdultStage => breedInfo[k].slpCost = 15300
            /\ axie.breedCount >= MAX_BREED_COUNT =>
                 ~breedInfo[k].canBreed /\ breedInfo[k].slpCost = 0

C13_Witness ==
    /\ pc = "info"
    /\ axie1.breedCount = 6 /\ axie1.stage = AdultStage /\ breedInfo[1].slpCost = 15300
    /\ axie2.breedCount = 7 /\ ~breedInfo[2].canBreed

\* C14: for breed counts c1, c2 in 0..6 the pair cost of calculateBreedingCost
\* and of the operation getBreedingCost is table[c1] + table[c2] SLP and 0.5 AXS
\* once for the pairing; c1 = c2 = 0 gives 1800 SLP and 0.5 AXS.
C14_PairCost ==
    LET inTable == axie1.breedCount \in TableCounts /\ axie2.breedCount \in TableCounts
        sum == TableCost(axie1.breedCount) + TableCost(axie2.breedCount)
    IN  /\ pc \in {"cost", "costOp"} /\ inTable =>
            /\ pairCost.slpCost = sum
            /\ pairCost.axsCost = 5
            /\ axie1.breedCount = 0 /\ axie2.breedCount = 0 => pairCost.slpCost = 1800
        /\ pc = "costOp" /\ inTable =>
            /\ costOp.totalCost.slp = sum
            /\ costOp.totalCost.axs = 5
            /\ costOp.sire.slpCost = TableCost(axie1.breedCount)
            /\ costOp.matron.slpCost = TableCost(axie2.breedCount)
            /\ axie1.breedCount = 0 /\ axie2.breedCount = 0 => costOp.totalCost.slp = 1800

C14_Witness ==
    /\ pc = "costOp"
    /\ axie1.breedCount = 0 /\ axie2.breedCount = 0
    /\ pairCost = [axsCost |-> 5, slpCost |-> 1800]
    /\ costOp.totalCost = [slp |-> 1800, axs |-> 5]

\* ---- eligibility of a pair -------------------------------------------------

SelfReason == <<"Cannot breed Axie with itself">>
ParentReason == <<"Cannot breed with parent">>
SiblingsReason == <<"Cannot breed siblings">>

\* the template literal `Axie ${axie.id}: ${breed.reason}`
AxieReason(axie, breed) == <<"Axie ", axie.id, ": ">> \o breed.reason

\* canBreedTogether without the check of siblings
canBreedTogetherNoSiblings(a1, a2) ==
    IF a1.id = a2.id
    THEN [canBreed |-> FALSE, reason |-> SelfReason]
    ELSE IF a1.id = a2.matronId \/ a1.id = a2.sireId
    THEN [canBreed |-> FALSE, reason |-> ParentReason]
    ELSE IF a2.id = a1.matronId \/ a2.id = a1.sireId
    THEN [canBreed |-> FALSE, reason |-> ParentReason]
    ELSE IF ~canBreed(a1).canBreed
    THEN [canBreed |-> FALSE, reason |-> AxieReason(a1, canBreed(a1))]
    ELSE IF ~canBreed(a2).canBreed
    THEN [canBreed |-> FALSE, reason |-> AxieReason(a2, canBreed(a2))]
    ELSE [canBreed |-> TRUE]

\* canBreedTogether that looks for a parent in one direction only
canBreedTogetherOneWay(a1, a2) ==
    IF a1.id = a2.id
    THEN [canBreed |-> FALSE, reason |-> SelfReason]
    ELSE IF a1.id = a2.matronId \/ a1.id = a2.sireId
    THEN [canBreed |-> FALSE, reason |-> ParentReason]
    ELSE IF /\ a1.matronId = a2.matronId
            /\ a1.sireId = a2.sireId
            /\ a1.matronId # "0"
            /\ a1.sireId # "0"
    THEN [canBreed |-> FALSE, reason |-> SiblingsReason]
    ELSE IF ~canBreed(a1).canBreed
    THEN [canBreed |-> FALSE, reason |-> AxieReason(a1, canBreed(a1))]
    ELSE IF ~canBreed(a2).canBreed
    THEN [canBreed |-> FALSE, reason |-> AxieReason(a2, canBreed(a2))]
    ELSE [canBreed |-> TRUE]

canBreedTogether(a1, a2) ==
    IF a1.id = a2.id
    THEN [canBreed |-> FALSE, reason |-> SelfReason]
    ELSE IF a1.id = a2.matronId \/ a1.id = a2.sireId
    THEN [canBreed |-> FALSE, reason |-> ParentReason]
    ELSE IF a2.id = a1.matronId \/ a2.id = a1.sireId
    THEN [canBreed |-> FALSE, reason |-> ParentReason]
    ELSE IF /\ a1.matronId = a2.matronId
            /\ a1.sireId = a2.sireId
            /\ a1.matronId # "0"
            /\ a1.sireId # "0"
    THEN [canBreed |-> FALSE, reason |-> SiblingsReason]
    ELSE IF ~canBreed(a1).canBreed
    THEN [canBreed |-> FALSE, reason |-> AxieReason(a1, canBreed(a1))]
    ELSE IF ~canBreed(a2).canBreed
    THEN [canBreed |-> FALSE, reason |-> AxieReason(a2, canBreed(a2))]
    ELSE [canBreed |-> TRUE]

undefined == [undefined |-> TRUE]

\* issues.push(issue) when the condition holds
PushIf(issues, condition, issue) == IF condition THEN Append(issues, issue) ELSE issues

\* the template literal `Sire has reached max breed count (${MAX_BREED_COUNT})`
SireMaxReason ==
    <<"Sire has reached max breed count (">> \o NatToString(MAX_BREED_COUNT, 10) \o <<")">>
MatronMaxReason ==
    <<"Matron has reached max breed count (">> \o NatToString(MAX_BREED_COUNT, 10) \o <<")">>
SireAdultReason == <<"Sire must be an adult (stage 4)">>
MatronAdultReason == <<"Matron must be an adult (stage 4)">>

\* the operation checkEligibility, for the fetched sire and matron
checkEligibility(sire, matron) ==
    LET sireId == sire.id
        matronId == matron.id
        i1 == PushIf(<<>>, sireId = matronId, SelfReason)
        i2 == PushIf(i1, NumberOr(sire.breedCount, 0) >= MAX_BREED_COUNT, SireMaxReason)
        i3 == PushIf(i2, NumberOr(matron.breedCount, 0) >= MAX_BREED_COUNT, MatronMaxReason)
        i4 == PushIf(i3, sire.stage < AdultStage, SireAdultReason)
        i5 == PushIf(i4, matron.stage < AdultStage, MatronAdultReason)
        i6 == PushIf(i5, sire.matronId = matronId \/ sire.sireId = matronId, ParentReason)
        issues == PushIf(i6, matron.matronId = sireId \/ matron.sireId = sireId, ParentReason)
    IN  [sireId |-> sireId,
         matronId |-> matronId,
         canBreed |-> (Len(issues) = 0),
         issues |-> IF Len(issues) > 0 THEN issues ELSE undefined,
         sireBreedCount |-> NumberOr(sire.breedCount, 0),
         matronBreedCount |-> NumberOr(matron.breedCount, 0)]

\* ---- inputs of the eligibility functions ----------------------------------

AxieIds == {"1", "2"}
ParentIds == {NoParent, "1", "2", "3", "4"}
BreedCounts == {0} \cup (MAX_BREED_COUNT - 1)..MaxBreedCount

Axies(id) ==
    [id : {id}, breedCount : BreedCounts, stage : {AdultStage - 1, AdultStage},
     matronId : ParentIds, sireId : ParentIds]

\* two fetches of one id give one Axie
EligibilityInit ==
    /\ pc = "start"
    /\ axie1 \in Axies("1")
    /\ axie2 \in Axies("2") \cup {axie1}
    /\ breedInfo = NoValue /\ pairCost = NoValue /\ costOp = NoValue
    /\ together = NoValue /\ eligibility = NoValue /\ togetherSwapped = NoValue
    /\ IdleGenes /\ IdleAdvantage /\ IdleProbability /\ IdlePair /\ IdleAddress /\ IdleTrigger

CanBreedTogetherCall ==
    /\ pc = "info"
    /\ together' = canBreedTogether(axie1, axie2)
    /\ pc' = "together"
    /\ UNCHANGED <<axie1, axie2, breedInfo, pairCost, costOp, eligibility, togetherSwapped>>
    /\ UNCHANGED <<geneVars, advVars, probVars, pairVars, addrVars, trigVars>>

CheckEligibilityOp ==
    /\ pc = "together"
    /\ eligibility' = checkEligibility(axie1, axie2)
    /\ pc' = "checked"
    /\ UNCHANGED <<axie1, axie2, breedInfo, pairCost, costOp, together, togetherSwapped>>
    /\ UNCHANGED <<geneVars, advVars, probVars, pairVars, addrVars, trigVars>>

\* the same pair with the arguments exchanged
CanBreedTogetherSwapped ==
    /\ pc = "checked"
    /\ togetherSwapped' = canBreedTogether(axie2, axie1)
    /\ pc' = "swapped"
    /\ UNCHANGED <<axie1, axie2, breedInfo, pairCost, costOp, together, eligibility>>
    /\ UNCHANGED <<geneVars, advVars, probVars, pairVars, addrVars, trigVars>>

EligibilityNext ==
    CanBreedCall \/ CanBreedTogetherCall \/ CheckEligibilityOp \/ CanBreedTogetherSwapped

EligibilitySpec == EligibilityInit /\ [][EligibilityNext]_vars

\* ---- the blocking conditions, as the specification words them -------------

SameAxie == axie1.id = axie2.id
MaxedOut(axie) == axie.breedCount >= 7
NotAdult(axie) == axie.stage < 4
IsParentOf(a, b) == a.id = b.matronId \/ a.id = b.sireId
DirectFamily == IsParentOf(axie1, axie2) \/ IsParentOf(axie2, axie1)
Siblings ==
    /\ axie1.matronId = axie2.matronId /\ axie1.sireId = axie2.sireId
    /\ axie1.matronId # "0" /\ axie1.sireId # "0"
Blocked ==
    \/ SameAxie
    \/ MaxedOut(axie1) \/ MaxedOut(axie2)
    \/ NotAdult(axie1) \/ NotAdult(axie2)
    \/ DirectFamily
    \/ Siblings

TogetherDone == pc \in {"together", "checked", "swapped"}
HasReason(result) ==
    "reason" \in DOMAIN result /\ Len(result.reason) > 0

\* C15: canBreedTogether returns canBreed = false with a reason exactly when
\* the Axies are one Axie, or one has breedCount >= 7 or stage < 4, or one is a
\* parent of the other, or they are siblings; otherwise canBreed = true with no
\* reason.
C15_BlockedIffCondition ==
    TogetherDone =>
        /\ together.canBreed \in BOOLEAN
        /\ Blocked => ~together.canBreed /\ HasReason(together)
        /\ ~Blocked => together = [canBreed |-> TRUE]

C15_Witness ==
    /\ pc = "together"
    /\ Siblings /\ ~SameAxie /\ ~DirectFamily
    /\ ~MaxedOut(axie1) /\ ~MaxedOut(axie2) /\ ~NotAdult(axie1) /\ ~NotAdult(axie2)
    /\ together = [canBreed |-> FALSE, reason |-> SiblingsReason]

\* ---- what a result reports -------------------------------------------------

Pieces(reason) == {reason[i] : i \in 1..Len(reason)}
TogetherPieces == IF HasReason(together) THEN Pieces(together.reason) ELSE {}
IssuePieces ==
    IF eligibility.canBreed THEN {}
    ELSE UNION {Pieces(eligibility.issues[i]) : i \in 1..Len(eligibility.issues)}

MaxBreedPhrases ==
    {"Maximum breed count reached (7)", "Sire has reached max breed count (",
     "Matron has reached max breed count ("}
NotAdultPhrases ==
    {"Axie must be an adult to breed", "Sire must be an adult (stage 4)",
     "Matron must be an adult (stage 4)"}
MentionsMaxBreedCount(pieces) == pieces \cap MaxBreedPhrases # {}

\* the blocking conditions that hold for the pair
Conditions == {"self", "max", "adult", "parent", "siblings"}
Holds(c) ==
    CASE c = "self" -> SameAxie
      [] c = "max" -> MaxedOut(axie1) \/ MaxedOut(axie2)
      [] c = "adult" -> NotAdult(axie1) \/ NotAdult(axie2)
      [] c = "parent" -> DirectFamily
      [] c = "siblings" -> Siblings
Reports(pieces, c) ==
    CASE c = "self" -> "Cannot breed Axie with itself" \in pieces
      [] c = "max" -> MentionsMaxBreedCount(pieces)
      [] c = "adult" -> pieces \cap NotAdultPhrases # {}
      [] c = "parent" -> "Cannot breed with parent" \in pieces
      [] c = "siblings" -> "Cannot breed siblings" \in pieces
Holding == {c \in Conditions : Holds(c)}

\* C16: when two or more blocking conditions hold, canBreedTogether's reason
\* and the issues of checkEligibility report every one of them.
C16_AllConditionsReported ==
    pc = "checked" /\ Cardinality(Holding) >= 2 =>
        \A c \in Holding : Reports(TogetherPieces, c) /\ Reports(IssuePieces, c)

\* C17: an Axie with breedCount = 7 makes the result ineligible with a reason
\* that mentions the max breed count, in canBreed, canBreedTogether and
\* checkEligibility, whatever else holds.
C17_MaxBreedCountReported ==
    pc = "checked" =>
        \A k \in 1..2 :
            LET axie == IF k = 1 THEN axie1 ELSE axie2 IN
            axie.breedCount = 7 =>
                /\ ~breedInfo[k].canBreed
                /\ MentionsMaxBreedCount(Pieces(breedInfo[k].reason))
                /\ ~together.canBreed
                /\ MentionsMaxBreedCount(TogetherPieces)
                /\ ~eligibility.canBreed
                /\ MentionsMaxBreedCount(IssuePieces)

\* C18: checkEligibility returns canBreed = false whenever a blocking condition
\* holds (siblings included), and canBreed = true with issues undefined only
\* when none holds.
C18_EligibilityOpBlocks ==
    pc = "checked" =>
        /\ Blocked => ~eligibility.canBreed
        /\ eligibility.canBreed => ~Blocked /\ eligibility.issues = undefined

\* ---------------------------------------------------------------------------
\* Breeding probability (geneUtils.ts calculateBreedingProbability).  The
\* weights 0.375, 0.09375 and 0.03125 are kept in 1/32: 12, 3 and 1; they and
\* every sum of at most six of them are exact in binary floating point.
\* ---------------------------------------------------------------------------

weights == [d |-> 12, r1 |-> 3, r2 |-> 1]

\* the characters of the class names, for template literals
ClassChars ==
    [beast   |-> <<"b","e","a","s","t">>,
     bug     |-> <<"b","u","g">>,
     bird    |-> <<"b","i","r","d">>,
     plant   |-> <<"p","l","a","n","t">>,
     aquatic |-> <<"a","q","u","a","t","i","c">>,
     reptile |-> <<"r","e","p","t","i","l","e">>,
     mech    |-> <<"m","e","c","h">>,
     dawn    |-> <<"d","a","w","n">>,
     dusk    |-> <<"d","u","s","k">>,
     unknown |-> <<"u","n","k","n","o","w","n">>]

\* the template literal `${gene.class}-${gene.id}`
geneKey(gene) == ClassChars[gene.class] \o <<"-">> \o gene.id

\* new Map()
EmptyMap == [k \in {} |-> 0]
\* a get that never finds the key
MapGetMissing(map, key, default) == default
\* probabilities.get(key) || 0
MapGetOr(map, key, default) ==
    IF key \in DOMAIN map /\ map[key] # 0 THEN map[key] ELSE default
\* probabilities.set(key, value)
MapSet(map, key, value) ==
    [k \in DOMAIN map \cup {key} |-> IF k = key THEN value ELSE map[k]]

\* the loop over allGenes, from entry i on
RECURSIVE addWeights(_, _, _)
addWeights(entries, i, map) ==
    IF i > Len(entries) THEN map
    ELSE LET key == entries[i].key
             currentProb == MapGetOr(map, key, 0)
         IN  addWeights(entries, i + 1, MapSet(map, key, currentProb + entries[i].weight))

allGenes(p1, p2) ==
    <<[gene |-> p1.d,  weight |-> weights.d],
      [gene |-> p1.r1, weight |-> weights.r1],
      [gene |-> p1.r2, weight |-> weights.r2],
      [gene |-> p2.d,  weight |-> weights.d],
      [gene |-> p2.r1, weight |-> weights.r1],
      [gene |-> p2.r2, weight |-> weights.r2]>>

\* calculateBreedingProbability with the part id alone as the key
calculateBreedingProbabilityById(p1, p2) ==
    LET all == allGenes(p1, p2)
        entries == [i \in 1..Len(all) |-> [key |-> all[i].gene.id, weight |-> all[i].weight]]
    IN  addWeights(entries, 1, EmptyMap)

calculateBreedingProbability(p1, p2) ==
    LET all == allGenes(p1, p2)
        entries == [i \in 1..Len(all) |->
                       [key |-> geneKey(all[i].gene), weight |-> all[i].weight]]
    IN  addWeights(entries, 1, EmptyMap)

\* ---- inputs: alleles as decodePart gives them ------------------------------

\* allele windows: class bits of beast, bug and of no class, two part ids, and
\* the empty window of a part read past the end of the gene
AlleleWindows ==
    {c \o i \o <<"0","0">> :
        c \in {<<"0","0","0","0">>, <<"0","0","0","1">>, <<"1","1","1","1">>},
        i \in {<<"0","0","0","0","0","1">>, <<"0","0","1","0","1","0">>}}
    \cup {<<>>}
AllelePool == {decodePart(w) : w \in AlleleWindows}
PartGenes == [d : AllelePool, r1 : AllelePool, r2 : AllelePool]

ProbabilityInit ==
    /\ pc = "start"
    /\ parent1Gene \in PartGenes
    /\ parent2Gene \in PartGenes
    /\ probabilities = NoValue
    /\ IdleGenes /\ IdleAdvantage /\ IdleBreeding /\ IdlePair /\ IdleAddress /\ IdleTrigger

CalculateBreedingProbabilityCall ==
    /\ pc = "start"
    /\ probabilities' = calculateBreedingProbability(parent1Gene, parent2Gene)
    /\ pc' = "probabilities"
    /\ UNCHANGED <<parent1Gene, parent2Gene>>
    /\ UNCHANGED <<geneVars, advVars, breedVars, pairVars, addrVars, trigVars>>

ProbabilityNext == CalculateBreedingProbabilityCall

ProbabilitySpec == ProbabilityInit /\ [][ProbabilityNext]_vars

\* the six input alleles with their weights in 1/32, by position
ThreeAlleleOrder == <<"d", "r1", "r2">>
InputAllele(i) ==
    LET parent == IF i <= 3 THEN parent1Gene ELSE parent2Gene
        a == ThreeAlleleOrder[((i - 1) % 3) + 1]
    IN  parent[a]
InputWeight(i) == <<12, 3, 1>>[((i - 1) % 3) + 1]
SameAllele(i, j) ==
    /\ InputAllele(i).class = InputAllele(j).class
    /\ InputAllele(i).id = InputAllele(j).id
RECURSIVE WeightSum(_)
WeightSum(S) ==
    IF S = {} THEN 0
    ELSE LET i == CHOOSE x \in S : TRUE IN InputWeight(i) + WeightSum(S \ {i})

\* C19: the dominant, recessive-1 and recessive-2 alleles of each parent weigh
\* 0.375, 0.09375 and 0.03125; the value of a (class, part id) key is the sum of
\* the weights of the input alleles with that class and id; two alleles share a
\* key only if class and id are both equal.
C19_ProbabilityByClassAndId ==
    pc = "probabilities" =>
        /\ DOMAIN probabilities = {geneKey(InputAllele(i)) : i \in 1..6}
        /\ \A i \in 1..6 :
              probabilities[geneKey(InputAllele(i))]
                 = WeightSum({j \in 1..6 : SameAllele(i, j)})
        /\ \A i, j \in 1..6 :
              geneKey(InputAllele(i)) = geneKey(InputAllele(j)) => SameAllele(i, j)

C19_Witness ==
    /\ pc = "probabilities"
    /\ parent1Gene.d.class = "beast" /\ parent2Gene.d.class = "bug"
    /\ parent1Gene.d.id = parent2Gene.d.id
    /\ SameAllele(1, 5) /\ ~SameAllele(1, 2) /\ ~SameAllele(1, 3) /\ ~SameAllele(1, 6)
    /\ probabilities[geneKey(parent1Gene.d)] = 15
    /\ Cardinality(DOMAIN probabilities) >= 3

-----------------------------------------------------------------------------
(* C20 *)

\* C20: decodeGenes throws for no string, the malformed ones ('invalid', other
\* non-hex characters, a wrong length) included: every call returns a value.
C20_DecodeNeverThrows ==
    Decoded =>
        /\ decodeResult.threw = FALSE
        /\ DOMAIN decodeResult = {"threw", "value"}
        /\ decodeResult.value.class \in ClassNames

\* 'invalid' has been decoded: the call returned, with the default class
C20_Witness ==
    /\ Decoded
    /\ geneHex = InvalidWord
    /\ ~testHexRegex(geneHex) /\ Len(geneHex) # GeneHexLen
    /\ "value" \in DOMAIN decodeResult
    /\ decodeResult.value.class = "beast"

-----------------------------------------------------------------------------
(* C21 *)

\* s is '0x' followed by n hexadecimal characters
IsPrefixedHex(s, n) ==
    /\ Len(s) = n + 2 /\ s[1] = "0" /\ s[2] = "x"
    /\ \A i \in 3..(n + 2) : s[i] \in HexCharClass

\* the genes of the unit tests: '0x' + '1'.repeat(64) and '0x' + '1'.repeat(128)
validGene256 == <<"0","x">> \o [i \in 1..64 |-> "1"]
validGene512 == <<"0","x">> \o [i \in 1..128 |-> "1"]

\* C21: isValidGene returns true for '0x' followed by 128 hex characters (a
\* 512-bit gene) as well as for '0x' followed by 64 (a 256-bit gene).
C21_Valid512 ==
    Validated =>
        /\ geneHex = validGene256 => valid = TRUE
        /\ IsPrefixedHex(geneHex, 64) \/ IsPrefixedHex(geneHex, 128) => valid = TRUE

-----------------------------------------------------------------------------
(* C22: two genes that differ in some nibbles, decoded side by side *)

\* 0-based hex positions replaced in the second gene: the nibbles of bits
\* [52,56), [56,60), the third nibble of the windows of eyes.d, eyes.r1 and
\* tail.d, and the class nibble of eyes.d
EditedNibbles == {13, 14, 18, 21, 63, 16}

PairBases == {"0", "1", "a"}

GenePairs ==
    {<<Repeat(b, GeneHexLen), Body(GeneHexLen, b, S, c)>> :
        b \in PairBases, S \in SUBSET EditedNibbles, c \in EditChars \ NonHexChars}

PaddingInit ==
    /\ pc = "start"
    /\ genePair \in GenePairs
    /\ decodedPair = NoValue
    /\ derivedPair = NoValue
    /\ IdleGenes /\ IdleAdvantage /\ IdleBreeding /\ IdleProbability /\ IdleAddress /\ IdleTrigger

DecodePairCall ==
    /\ pc = "start"
    /\ decodedPair' = <<decodeGenes(genePair[1]), decodeGenes(genePair[2])>>
    /\ pc' = "decodedPair"
    /\ UNCHANGED <<genePair, derivedPair>>
    /\ UNCHANGED <<geneVars, advVars, breedVars, probVars, addrVars, trigVars>>

DerivePairCall ==
    /\ pc = "decodedPair"
    /\ derivedPair' =
          [k \in 1..2 |->
              [stats |-> calculateStats(decodedPair[k], BASE_STATS, PART_STAT_BONUS),
               purity |-> calculatePurity(decodedPair[k])]]
    /\ pc' = "derivedPair"
    /\ UNCHANGED <<genePair, decodedPair>>
    /\ UNCHANGED <<geneVars, advVars, breedVars, probVars, addrVars, trigVars>>

PaddingNext == DecodePairCall \/ DerivePairCall

PaddingSpec == PaddingInit /\ [][PaddingNext]_vars

\* the padding: bits [53,64) and the last 2 bits of each 12-bit allele window
\* (windows start at bit 64 and follow each other) inside the 256 bits
PaddingBits ==
    (53..63) \cup {w + 10 : w \in {64 + 12 * k : k \in 0..15}}
             \cup {w + 11 : w \in {64 + 12 * k : k \in 0..15}}
InformationBits == (0..255) \ PaddingBits
DifferOnlyInPadding(g1, g2) ==
    \A k \in InformationBits : RefBit(g1, k) = RefBit(g2, k)

\* C22: two valid genes that differ only in bits [53,64) and in the last 2 bits
\* of 12-bit allele windows decode to equal structures, and so have equal stats
\* and purity.
C22_PaddingIgnored ==
    DifferOnlyInPadding(genePair[1], genePair[2]) =>
        /\ pc \in {"decodedPair", "derivedPair"} => decodedPair[1] = decodedPair[2]
        /\ pc = "derivedPair" => derivedPair[1] = derivedPair[2]

C22_Witness ==
    /\ pc = "derivedPair"
    /\ genePair[1] = Repeat("0", GeneHexLen)
    /\ genePair[2] = Body(GeneHexLen, "0", {13, 14, 18, 21, 63}, "3")
    /\ decodedPair[1] = decodedPair[2]
    /\ derivedPair[1] = derivedPair[2]

\* ---------------------------------------------------------------------------
\* Address formats (utils/addressUtils.ts roninToHex, hexToRonin).  A call
\* returns [threw |-> FALSE, value |-> string] or [threw |-> TRUE].
\* ---------------------------------------------------------------------------

RONIN_PREFIX == <<"r","o","n","i","n",":">>
HexPrefix == <<"0","x">>

\* String.prototype.toLowerCase, on the characters addresses are made of
LowerCaseOf ==
    ("A" :> "a") @@ ("B" :> "b") @@ ("C" :> "c") @@ ("D" :> "d") @@ ("E" :> "e") @@
    ("F" :> "f") @@ ("R" :> "r") @@ ("O" :> "o") @@ ("N" :> "n") @@ ("I" :> "i") @@
    ("X" :> "x")
toLowerCase(s) == [i \in 1..Len(s) |-> LookupOr(LowerCaseOf, s[i], s[i])]

isRoninFormat(addr) == startsWith(toLowerCase(addr), RONIN_PREFIX)
isHexFormat(addr) == startsWith(toLowerCase(addr), HexPrefix)

AddressDigits == 40
UpperHexLetters == {"A","B","C","D","E","F"}
LowerHexLetters == {"a","b","c","d","e","f"}

\* ethers.isAddress for a string that is no ICAP address: an optional 0x and
\* 40 hex digits; when letters of both cases occur, the EIP-55 checksum (a
\* keccak256 of the digits) must match, which checksumOk stands for
isAddress(s, checksumOk) ==
    LET digits == IF startsWith(s, HexPrefix) THEN sliceFrom(s, 2) ELSE s
        mixedCase == /\ \E i \in 1..Len(s) : s[i] \in UpperHexLetters
                     /\ \E i \in 1..Len(s) : s[i] \in LowerHexLetters
    IN  /\ Len(digits) = AddressDigits
        /\ testHexRegex(digits)
        /\ mixedCase => checksumOk

Returned(v) == [threw |-> FALSE, value |-> v]
Thrown == [threw |-> TRUE]

\* roninToHex that keeps the letter case of what it is given
roninToHexKeepCase(addr, checksumOk) ==
    IF isHexFormat(addr) THEN Returned(addr)
    ELSE IF ~isRoninFormat(addr) THEN Thrown
    ELSE LET hexAddress == HexPrefix \o sliceFrom(addr, Len(RONIN_PREFIX))
         IN  IF ~isAddress(hexAddress, checksumOk) THEN Thrown
             ELSE Returned(hexAddress)

roninToHex(addr, checksumOk) ==
    IF isHexFormat(addr) THEN Returned(toLowerCase(addr))
    ELSE IF ~isRoninFormat(addr) THEN Thrown
    ELSE LET hexAddress == HexPrefix \o sliceFrom(addr, Len(RONIN_PREFIX))
         IN  IF ~isAddress(hexAddress, checksumOk) THEN Thrown
             ELSE Returned(toLowerCase(hexAddress))

hexToRonin(addr, checksumOk) ==
    IF isRoninFormat(addr) THEN Returned(toLowerCase(addr))
    ELSE IF ~isHexFormat(addr) THEN Thrown
    ELSE IF ~isAddress(addr, checksumOk) THEN Thrown
    ELSE Returned(RONIN_PREFIX \o toLowerCase(sliceFrom(addr, 2)))

\* ---- the addresses explored ------------------------------------------------

MaxAddrLenDelta == 1

AddressPrefixes == {RONIN_PREFIX, HexPrefix, <<"R","O","N","I","N",":">>, <<>>}
AddressLengths == (AddressDigits - MaxAddrLenDelta)..(AddressDigits + MaxAddrLenDelta)
AddressBodies ==
    {Repeat(c, n) : c \in {"1", "a", "A", "g"}, n \in AddressLengths}
    \cup {Body(AddressDigits, b, P, c) :
            b \in {"1", "a", "F"}, P \in {{0}, {AddressDigits - 1}, {0, 20}},
            c \in {"b", "B", "9", "g"}}
\* the address of the unit tests
validHexDigits ==
    [i \in 1..AddressDigits |->
        <<"1","2","3","4","5","6","7","8","9","0","a","b","c","d","e","f">>[((i - 1) % 16) + 1]]
Addresses == {p \o h : p \in AddressPrefixes, h \in AddressBodies \cup {validHexDigits}}

AddressInit ==
    /\ pc = "start"
    /\ address \in Addresses
    /\ checksumValid \in BOOLEAN
    /\ hexResult = NoValue /\ roninResult = NoValue /\ roundTrip = NoValue
    /\ IdleGenes /\ IdleAdvantage /\ IdleBreeding /\ IdleProbability /\ IdlePair /\ IdleTrigger

RoninToHexCall ==
    /\ pc = "start"
    /\ hexResult' = roninToHex(address, checksumValid)
    /\ pc' = "toHex"
    /\ UNCHANGED <<address, checksumValid, roninResult, roundTrip>>
    /\ UNCHANGED <<geneVars, advVars, breedVars, probVars, pairVars, trigVars>>

HexToRoninCall ==
    /\ pc = "toHex"
    /\ roninResult' = hexToRonin(address, checksumValid)
    /\ pc' = "toRonin"
    /\ UNCHANGED <<address, checksumValid, hexResult, roundTrip>>
    /\ UNCHANGED <<geneVars, advVars, breedVars, probVars, pairVars, trigVars>>

\* roninToHex(hexToRonin(address)): the inner call's exception passes through
RoundTripCall ==
    /\ pc = "toRonin"
    /\ roundTrip' = IF roninResult.threw THEN Thrown
                    ELSE roninToHex(roninResult.value, checksumValid)
    /\ pc' = "roundTrip"
    /\ UNCHANGED <<address, checksumValid, hexResult, roninResult>>
    /\ UNCHANGED <<geneVars, advVars, breedVars, probVars, pairVars, trigVars>>

AddressNext == RoninToHexCall \/ HexToRoninCall \/ RoundTripCall

AddressSpec == AddressInit /\ [][AddressNext]_vars

\* ---- addresses, as the claim words them -----------------------------------

\* addr is the prefix followed by 40 hexadecimal digits of any letter case
IsAddressWith(addr, prefix) ==
    /\ Len(addr) = Len(prefix) + 40
    /\ SubSeq(addr, 1, Len(prefix)) = prefix
    /\ \A i \in (Len(prefix) + 1)..Len(addr) : addr[i] \in HexCharClass
IsRoninAddress == IsAddressWith(address, <<"r","o","n","i","n",":">>)
IsHexAddress == IsAddressWith(address, <<"0","x">>)
DigitsOf(addr) == SubSeq(addr, Len(addr) - 39, Len(addr))

\* two strings of hex digits that write the same number
SameDigits(h1, h2) ==
    Len(h1) = Len(h2) /\ \A i \in 1..Len(h1) : RefNibble[h1[i]] = RefNibble[h2[i]]
\* v is the address of addr in the form with the given prefix
IsFormOf(v, prefix, addr) ==
    IsAddressWith(v, prefix) /\ SameDigits(DigitsOf(v), DigitsOf(addr))

RefLowerLetter ==
    ("A" :> "a") @@ ("B" :> "b") @@ ("C" :> "c") @@ ("D" :> "d") @@ ("E" :> "e") @@
    ("F" :> "f")
RefLower(h) ==
    [i \in 1..Len(h) |-> IF h[i] \in DOMAIN RefLowerLetter THEN RefLowerLetter[h[i]] ELSE h[i]]
HasUpper(h) == \E i \in 1..Len(h) : h[i] \in {"A","B","C","D","E","F"}
HasLower(h) == \E i \in 1..Len(h) : h[i] \in {"a","b","c","d","e","f"}
\* the library accepts the digits: one letter case, or a valid checksum
Accepted == ~(HasUpper(DigitsOf(address)) /\ HasLower(DigitsOf(address))) \/ checksumValid

\* C23 (as claimed): for 40 hex digits h of any letter case, roninToHex('ronin:' +
\* h) is the 0x form and hexToRonin('0x' + h) the ronin: form of the same address;
\* roninToHex of a 0x address and hexToRonin of a ronin: address return the input
\* unchanged; roninToHex(hexToRonin(x)) = x for every 0x address x.
C23_ConversionsKeepAddress ==
    pc = "roundTrip" =>
        /\ IsRoninAddress =>
              /\ ~hexResult.threw /\ IsFormOf(hexResult.value, <<"0","x">>, address)
              /\ roninResult = [threw |-> FALSE, value |-> address]
        /\ IsHexAddress =>
              /\ ~roninResult.threw
              /\ IsFormOf(roninResult.value, <<"r","o","n","i","n",":">>, address)
              /\ hexResult = [threw |-> FALSE, value |-> address]
              /\ roundTrip = [threw |-> FALSE, value |-> address]

\* C23 (amended): both functions return lower-case text.  For 40 hex digits h,
\* roninToHex('0x' + h) and hexToRonin('ronin:' + h) return the input in lower
\* case; roninToHex('ronin:' + h) = '0x' + lower(h), hexToRonin('0x' + h) =
\* 'ronin:' + lower(h) and roninToHex(hexToRonin(x)) = lower(x) when h is of one
\* letter case or carries a valid checksum, and they throw otherwise.  With h in
\* lower case all of this is the original statement.
C23_ConversionsLowerCase ==
    pc = "roundTrip" =>
        /\ IsRoninAddress =>
              /\ roninResult = [threw |-> FALSE, value |-> RefLower(address)]
              /\ Accepted =>
                    hexResult = [threw |-> FALSE,
                                 value |-> <<"0","x">> \o RefLower(DigitsOf(address))]
              /\ ~Accepted => hexResult.threw
        /\ IsHexAddress =>
              /\ hexResult = [threw |-> FALSE, value |-> RefLower(address)]
              /\ Accepted =>
                    /\ roninResult = [threw |-> FALSE,
                                      value |-> <<"r","o","n","i","n",":">>
                                                   \o RefLower(DigitsOf(address))]
                    /\ roundTrip = [threw |-> FALSE, value |-> RefLower(address)]
              /\ ~Accepted => roninResult.threw /\ roundTrip.threw
        /\ (IsRoninAddress \/ IsHexAddress) /\ ~HasUpper(DigitsOf(address)) =>
              /\ ~hexResult.threw /\ IsFormOf(hexResult.value, <<"0","x">>, address)
              /\ ~roninResult.threw
              /\ IsFormOf(roninResult.value, <<"r","o","n","i","n",":">>, address)
              /\ IsRoninAddress => roninResult.value = address
              /\ IsHexAddress => hexResult.value = address /\ roundTrip.value = address

\* a checksummed 0x address has gone through both functions and came back in
\* lower case
C23_Witness ==
    /\ pc = "roundTrip"
    /\ IsHexAddress /\ checksumValid
    /\ HasUpper(DigitsOf(address)) /\ HasLower(DigitsOf(address))
    /\ ~roundTrip.threw
    /\ roundTrip.value # address
    /\ roundTrip.value = RefLower(address)

-----------------------------------------------------------------------------
(* C24 *)

\* the sum of the values of a map, in 1/32
RECURSIVE SumOver(_, _)
SumOver(map, keys) ==
    IF keys = {} THEN 0
    ELSE LET k == CHOOSE x \in keys : TRUE IN map[k] + SumOver(map, keys \ {k})

\* C24: the map of calculateBreedingProbability has 1 to 6 keys, every value is
\* a positive multiple of 1/32, and the values sum to exactly 1, whether or not
\* alleles repeat within or across the parents.
C24_ProbabilitiesSumToOne ==
    pc = "probabilities" =>
        /\ Cardinality(DOMAIN probabilities) \in 1..6
        /\ \A k \in DOMAIN probabilities : probabilities[k] \in 1..32
        /\ SumOver(probabilities, DOMAIN probabilities) = 32

\* one allele repeated within and across the parents, beside others
C24_Witness ==
    /\ pc = "probabilities"
    /\ parent1Gene.d = parent1Gene.r2 /\ parent1Gene.d = parent2Gene.r1
    /\ parent1Gene.r1 # parent1Gene.d /\ parent2Gene.d # parent1Gene.d
    /\ Cardinality(DOMAIN probabilities) = 3
    /\ probabilities[geneKey(parent1Gene.d)] = 16
    /\ SumOver(probabilities, DOMAIN probabilities) = 32

-----------------------------------------------------------------------------
(* C25 *)

\* C25: the verdict of canBreedTogether does not depend on the order of its
\* arguments (the reason may).
C25_VerdictSymmetric ==
    pc = "swapped" => together.canBreed = togetherSwapped.canBreed

\* a blocked pair whose reason depends on the order
C25_Witness ==
    /\ pc = "swapped"
    /\ ~together.canBreed /\ ~togetherSwapped.canBreed
    /\ together.reason # togetherSwapped.reason
    /\ NotAdult(axie1) /\ MaxedOut(axie2) /\ ~MaxedOut(axie1)

\* ---------------------------------------------------------------------------
\* RoninTrigger.trigger with event 'newBlock' (RoninTrigger.node.ts).
\* checkForEvents is an async function: an invocation runs from one await to
\* the next without interruption, and invocations interleave at the awaits.
\* Invocation 1 is the initial check, the others are started by the timer.
\* ---------------------------------------------------------------------------

StartHead == 1
MaxNewBlocks == 2
MaxInvocations == 3

MaxHead == StartHead + MaxNewBlocks
Invocations == 1..MaxInvocations
TimerInvocations == Invocations \ {1}

\* an invocation: where it stands, its const currentBlock, its loop variable
\* blockNum, and how it ended
IdleInvocation == [pc |-> "idle", currentBlock |-> 0, blockNum |-> 0, outcome |-> "none"]
Started(i) == [inv EXCEPT ![i].pc = "awaitBlockNumber"]
Ended(i, how) == [inv EXCEPT ![i].pc = "done", ![i].outcome = how]

\* the state when `let lastBlockNumber = await provider.getBlockNumber()` is done
TriggerInit ==
    /\ pc = "start"
    /\ head = StartHead
    /\ lastBlockNumber = StartHead
    /\ timer = "unset"
    /\ closed = FALSE
    /\ inv = [i \in Invocations |-> IdleInvocation]
    /\ emitted = <<>>
    /\ IdleGenes /\ IdleAdvantage /\ IdleBreeding /\ IdleProbability /\ IdlePair /\ IdleAddress

\* the chain gets a new block
ChainGrows ==
    /\ head < MaxHead
    /\ head' = head + 1
    /\ UNCHANGED <<pc, lastBlockNumber, timer, closed, inv, emitted>>
    /\ UNCHANGED <<geneVars, advVars, breedVars, probVars, pairVars, addrVars>>

\* setInterval(checkForEvents, ...) and the call of checkForEvents() that
\* follows it, up to its first await
StartPolling ==
    /\ pc = "start"
    /\ timer' = "armed"
    /\ inv' = Started(1)
    /\ pc' = "initialCheck"
    /\ UNCHANGED <<head, lastBlockNumber, closed, emitted>>
    /\ UNCHANGED <<geneVars, advVars, breedVars, probVars, pairVars, addrVars>>

\* the timer calls checkForEvents, whatever the earlier invocations are doing
TimerFires(i) ==
    /\ timer = "armed"
    /\ i \in TimerInvocations
    /\ inv[i].pc = "idle"
    /\ \A j \in TimerInvocations : j < i => inv[j].pc # "idle"
    /\ inv' = Started(i)
    /\ UNCHANGED <<pc, head, lastBlockNumber, timer, closed, emitted>>
    /\ UNCHANGED <<geneVars, advVars, breedVars, probVars, pairVars, addrVars>>

\* provider.getBlockNumber() rejects: the catch logs it
BlockNumberFails(i) ==
    /\ inv[i].pc = "awaitBlockNumber"
    /\ inv' = Ended(i, "threw")
    /\ UNCHANGED <<pc, head, lastBlockNumber, timer, closed, emitted>>
    /\ UNCHANGED <<geneVars, advVars, breedVars, probVars, pairVars, addrVars>>

\* provider.getBlockNumber() resolves: return when there is nothing new, else
\* enter the loop at lastBlockNumber + 1 and ask for that block
BlockNumberResolves(i) ==
    /\ inv[i].pc = "awaitBlockNumber"
    /\ LET currentBlock == head IN
       IF currentBlock <= lastBlockNumber
       THEN inv' = Ended(i, "nothingNew")
       ELSE inv' = [inv EXCEPT ![i].pc = "awaitBlock",
                               ![i].currentBlock = currentBlock,
                               ![i].blockNum = lastBlockNumber + 1]
    /\ UNCHANGED <<pc, head, lastBlockNumber, timer, closed, emitted>>
    /\ UNCHANGED <<geneVars, advVars, breedVars, probVars, pairVars, addrVars>>

\* blockNum++ and the loop test; after the loop, lastBlockNumber = currentBlock
NextBlock(i) ==
    IF inv[i].blockNum + 1 <= inv[i].currentBlock
    THEN /\ inv' = [inv EXCEPT ![i].blockNum = inv[i].blockNum + 1]
         /\ UNCHANGED lastBlockNumber
    ELSE /\ inv' = Ended(i, "completed")
         /\ lastBlockNumber' = inv[i].currentBlock

\* provider.getBlock(blockNum, true) resolves with the block: emit it
BlockResolves(i) ==
    /\ inv[i].pc = "awaitBlock"
    /\ emitted' = Append(emitted, [blockNumber |-> inv[i].blockNum, afterClose |-> closed])
    /\ NextBlock(i)
    /\ UNCHANGED <<pc, head, timer, closed>>
    /\ UNCHANGED <<geneVars, advVars, breedVars, probVars, pairVars, addrVars>>

\* provider.getBlock resolves with null: `if (!block) continue`
BlockMissing(i) ==
    /\ inv[i].pc = "awaitBlock"
    /\ NextBlock(i)
    /\ UNCHANGED <<pc, head, timer, closed, emitted>>
    /\ UNCHANGED <<geneVars, advVars, breedVars, probVars, pairVars, addrVars>>

\* provider.getBlock rejects: the catch logs it, the cursor is not assigned
BlockFails(i) ==
    /\ inv[i].pc = "awaitBlock"
    /\ inv' = Ended(i, "threw")
    /\ UNCHANGED <<pc, head, lastBlockNumber, timer, closed, emitted>>
    /\ UNCHANGED <<geneVars, advVars, breedVars, probVars, pairVars, addrVars>>

\* `await checkForEvents()` is over: trigger returns { closeFunction }
TriggerReturns ==
    /\ pc = "initialCheck"
    /\ inv[1].pc = "done"
    /\ pc' = "returned"
    /\ UNCHANGED trigVars
    /\ UNCHANGED <<geneVars, advVars, breedVars, probVars, pairVars, addrVars>>

\* closeFunction: clearInterval(intervalId)
Close ==
    /\ pc = "returned"
    /\ timer' = "cleared"
    /\ closed' = TRUE
    /\ pc' = "closed"
    /\ UNCHANGED <<head, lastBlockNumber, inv, emitted>>
    /\ UNCHANGED <<geneVars, advVars, breedVars, probVars, pairVars, addrVars>>

TriggerNext ==
    \/ ChainGrows
    \/ StartPolling
    \/ TriggerReturns
    \/ Close
    \/ \E i \in Invocations :
          \/ TimerFires(i)
          \/ BlockNumberFails(i)
          \/ BlockNumberResolves(i)
          \/ BlockResolves(i)
          \/ BlockMissing(i)
          \/ BlockFails(i)

TriggerSpec == TriggerInit /\ [][TriggerNext]_vars

\* ---- the trigger, as the claims word it ------------------------------------

EmittedBlocks == {emitted[k].blockNumber : k \in 1..Len(emitted)}

\* C26: for event 'newBlock', under every interleaving of the initial check and
\* the timer-driven invocations and under any provider failures, each block
\* number is emitted at most once and emissions are in strictly increasing
\* order of block number.
C26_EmittedOnceInOrder ==
    \A j, k \in 1..Len(emitted) :
        j < k => emitted[j].blockNumber < emitted[k].blockNumber

\* C27: the cursor lastBlockNumber never decreases, whatever the interleaving
\* of overlapping invocations; and an invocation that throws, or that sees
\* currentBlock <= lastBlockNumber, leaves it unchanged.
C27_CursorNeverDecreases ==
    [][/\ lastBlockNumber' >= lastBlockNumber
       /\ \A i \in Invocations :
             (inv[i].pc # "done" /\ inv'[i].pc = "done"
                /\ inv'[i].outcome \in {"threw", "nothingNew"})
                => lastBlockNumber' = lastBlockNumber]_vars

\* C28: no block is missed: the cursor never moves past a block number above
\* the head read at start-up that has not been emitted (so that every such
\* block is emitted in the end, polling and the provider permitting), also when
\* the fetch of the block returned no block or failed.
C28_NoBlockMissed ==
    \A b \in (StartHead + 1)..lastBlockNumber : b \in EmittedBlocks

\* C29: once closeFunction has completed nothing is emitted, not even by an
\* invocation that was awaiting the provider when closeFunction was called.
C29_NoEmitAfterClose ==
    \A k \in 1..Len(emitted) : ~emitted[k].afterClose

====
